---- MODULE Spec2Model ----
(***************************************************************************)
(* Session orchestration of helin-eeg: the start/stop route                *)
(* (frontend/src/app/api/start/route.ts), the display layer's handleStart  *)
(* (frontend/src/app/page.tsx) and the external stimulus and feedback      *)
(* processes that share tmp/config.json, tmp/status.json and               *)
(* tmp/feedback.json with the route.                                       *)
(*                                                                         *)
(* Node runs one handler at a time: every action of the route is the code  *)
(* between two awaits.  DELETE is split at the one place where the order   *)
(* of its file accesses against the external writer matters (it reads      *)
(* status.json, then kills, then writes it back); while DELETE is between  *)
(* the two, only the external processes may take steps.  kill() ends the   *)
(* child at once at the operating-system level; the exit event reaches the *)
(* route later, as its own step.                                           *)
(***************************************************************************)
EXTENDS Integers, Sequences, FiniteSets, TLC

\* ---------------------------------------------------------------- bounds
MaxStarts == 2

\* The status fetches the page has in flight at once, and the interval
\* identifiers setInterval hands out.
MaxPolls == 1
MaxTimers == 2

Sessions == 1..MaxStarts

\* The value of a JavaScript null exit code (child ended by a signal).
NullCode == -1

\* ------------------------------------------------------------ documents
\* The configs a client may submit: a valid one, one with an odd
\* trials_per_block, one with rest_min >= rest_max.  The state holds a
\* config by its place in this table, 0 where there is none.
Config(pid, tpb, nb, rmin, rmax) ==
  [participant_id |-> pid,
   blocks |-> [trials_per_block |-> tpb, num_blocks |-> nb],
   timing |-> [rest_min |-> rmin, rest_max |-> rmax]]

ConfigTable ==
  << Config("p1", 2, 1, 1, 2),
     Config("p1", 3, 1, 1, 2),
     Config("p1", 2, 2, 2, 2) >>

Configs == DOMAIN ConfigTable

NoConfig == 0

ConfigOf(c) == IF c = NoConfig THEN Config("", 0, 0, 0, 0) ELSE ConfigTable[c]

Doc(st, ph, ct, tt, cb, tb, bad, el, out) ==
  [state |-> st, phase |-> ph, current_trial |-> ct, total_trials |-> tt,
   current_block |-> cb, total_blocks |-> tb, bad_trials |-> bad,
   elapsed_seconds |-> el, output_file |-> out]

\* A file is absent, holds JSON, or holds bytes that JSON.parse rejects.
ZeroDoc == Doc("idle", "none", 0, 0, 0, 0, 0, 0, "")
Absent == [kind |-> "absent", doc |-> ZeroDoc]
Corrupt == [kind |-> "corrupt", doc |-> ZeroDoc]
Json(d) == [kind |-> "json", doc |-> d]

\* start/route.ts:36-49, the document POST writes before spawning.
InitialStatus(cfg) ==
  Doc("practice", "none", 0, cfg.blocks.trials_per_block, 0,
      cfg.blocks.num_blocks, 0, 0, "")

\* start/route.ts:89-99, the document the exit handler writes.
ZeroAborted == Doc("aborted", "none", 0, 0, 0, 0, 0, 0, "")

\* DELETE writing the exit handler's zeroed document instead of the spread.
AbortedFromZeroed(cur) == ZeroAborted

\* start/route.ts:180, { ...currentStatus, state: "aborted", phase: "none" }.
AbortedFrom(cur) == [cur EXCEPT !.state = "aborted", !.phase = "none"]

IsTerminal(d) == d.state = "aborted" \/ d.state = "completed"

\* What the external stimulus process may write for its config: progress
\* and its own final documents.
StimDocs(cfg) ==
  LET tt == cfg.blocks.trials_per_block
      tb == cfg.blocks.num_blocks
  IN { Doc("running", "cue", 1, tt, 1, tb, 1, 1, "out.csv"),
       Doc("completed", "none", tt, tt, tb, tb, 0, 2, "out.csv"),
       Doc("aborted", "none", 1, tt, 1, tb, 0, 1, "out.csv") }

\* ---------------------------------------------------------------- state
VARIABLES
  req,              \* the POST calls that passed the check: position, config
  nreq,             \* how many POST calls passed the check
  stim,             \* the stimulus child of each accepted start
  fb,               \* the feedback child of each accepted start: its st only
  stimulusProcess,  \* route.ts:6, 0 is null
  feedbackProcess,  \* route.ts:7, 0 is null
  processError,     \* route.ts:8
  processExited,    \* route.ts:9
  statusFile,       \* tmp/status.json
  statusStale,      \* statusFile was last written for a start other than latest
  configFile,       \* tmp/config.json
  feedbackFile,     \* tmp/feedback.json: 0 absent, r written by feedback child r
  stopPc,           \* DELETE: "idle", or "read" after its readFileSync
  currentStatus,    \* DELETE's local currentStatus (Absent is null)
  reply,            \* the answer the last step gave to a caller, if it gave one
  latest,           \* the start whose writes and spawns ran last
  probe,            \* the discovery probe of the streams GET in flight
  page              \* page.tsx: the component's state, timer and fetches

vars == <<req, nreq, stim, fb, stimulusProcess, feedbackProcess, processError,
          processExited, statusFile, statusStale, configFile, feedbackFile,
          stopPc, currentStatus, reply, latest, probe, page>>

NoReply == [op |-> "none", resp |-> "none"]

\* A POST call keeps its config until it has written it; a child keeps the
\* config it was given for as long as it runs.  crashed records, while the
\* call waits for its settle timer, that the exit handler of its own
\* stimulus child ran with a failure code while that child was the
\* tracked one.
NoReq == [pc |-> "none", cfg |-> NoConfig, crashed |-> FALSE]
NoProc == [st |-> "none", code |-> 0, cfg |-> NoConfig]
NoFb == "none"

\* The probe of a streams GET: st is "none", "running" (the child runs),
\* "ended" (execFile has its result and the callback is due) or "done"
\* (the callback has answered); err is execFile's error, stdout what the
\* probe printed.
NoProbe == [st |-> "none", err |-> "null", stdout |-> ""]

\* ------------------------------------------------------ the display layer
\* page.tsx:19-29.
IDLE_STATUS == ZeroDoc

Polls == 1..MaxPolls
Timers == 1..MaxTimers

\* A fetch of the page is "none", "sent" (on its way to the route),
\* "taken" (the POST passed the check as start r) or "answered" (the
\* response is on its way back).  A status fetch holds a slot of polls.
NoCall == [st |-> "none", cfg |-> NoConfig, r |-> 0, resp |-> "", error |-> ""]
FreePoll == [st |-> "free", resp |-> "", body |-> ZeroDoc]

\* page.tsx:49-53, the component after its first render.  timers are the
\* intervals that are set; rendered is the isRunning the polling effect
\* last ran for; stop is the DELETE fetch: "none", "sent", "serving" (the
\* route is inside DELETE) or "answered".
InitialPage ==
  [mounted |-> TRUE, status |-> IDLE_STATUS, isRunning |-> FALSE,
   error |-> "null", starting |-> FALSE, pollingRef |-> 0, timers |-> {},
   rendered |-> FALSE, start |-> NoCall, stop |-> "none",
   polls |-> [i \in Polls |-> FreePoll]]

\* page.tsx:117-123 against route.ts:16-21: the page's POST reaches the
\* check, which answers 409 or takes it as start r.
StartChecked(p, live, r) ==
  IF p.start.st # "sent" THEN p
  ELSE IF live
    THEN [p EXCEPT !.start = [st |-> "answered", cfg |-> NoConfig, r |-> 0,
                              resp |-> "409",
                              error |-> "A session is already running"]]
  ELSE [p EXCEPT !.start = [st |-> "taken", cfg |-> NoConfig, r |-> r,
                            resp |-> "", error |-> ""]]

\* page.tsx:117-123 against route.ts:138-145: the answer to the page's POST.
StartSettled(p, r, code, err) ==
  IF p.start.st = "taken" /\ p.start.r = r
    THEN [p EXCEPT !.start = [st |-> "answered", cfg |-> NoConfig, r |-> 0,
                              resp |-> code,
                              error |-> IF code = "ok" THEN "" ELSE err]]
  ELSE p

\* page.tsx:140 against route.ts:152-185: the page's DELETE enters the
\* route, and is answered.
StopTaken(p) == IF p.stop = "sent" THEN [p EXCEPT !.stop = "serving"] ELSE p
StopAnswered(p) ==
  IF p.stop \in {"sent", "serving"} THEN [p EXCEPT !.stop = "answered"] ELSE p

\* page.tsx:57 against the status route: the answer to the status fetch
\* that reached the route first.  The page reads no body of a 500.
SentPolls(p) == { i \in Polls : p.polls[i].st = "sent" }
FirstOf(s) == CHOOSE i \in s : \A j \in s : i <= j
PollAnswered(p, res) ==
  IF SentPolls(p) = {} THEN p
  ELSE [p EXCEPT !.polls[FirstOf(SentPolls(p))] =
          [st |-> "answered", resp |-> res.resp,
           body |-> IF res.resp = "200" THEN res.body ELSE ZeroDoc]]

Init ==
  /\ req = [r \in Sessions |-> NoReq]
  /\ nreq = 0
  /\ stim = [r \in Sessions |-> NoProc]
  /\ fb = [r \in Sessions |-> NoFb]
  /\ stimulusProcess = 0
  /\ feedbackProcess = 0
  /\ processError = "null"
  /\ processExited = FALSE
  /\ statusFile = Absent
  /\ statusStale = FALSE
  /\ configFile = NoConfig
  /\ feedbackFile = 0
  /\ stopPc = "idle"
  /\ currentStatus = Absent
  /\ reply = NoReply
  /\ latest = 0
  /\ probe = NoProbe
  /\ page = InitialPage

\* A child is "running" from its spawn until it ends by itself or is
\* killed, "dead" until its exit event has reached the route, then "gone";
\* a child that failed to launch is "gone" at once.
Alive(p) == p.st = "running"
FbAlive(st) == st = "running"

\* The test with the negation of .killed lost: false of every handle the
\* route holds.
HandleLiveKilled(h) == h # 0 /\ FALSE

\* route.ts:16, 153: stimulusProcess && !stimulusProcess.killed.  Only
\* kill() sets killed (162, 167), and the next statement (163, 168) clears
\* the handle: no handle the route holds is ever of a killed child.
HandleLive(h) == h # 0

\* ChildProcess.kill(): the signal ends a running child.
Kill(p) ==
  IF p.st = "running" THEN [st |-> "dead", code |-> NullCode, cfg |-> NoConfig]
  ELSE p
KillFb(st) == IF st = "running" THEN "dead" ELSE st

\* ------------------------------------------------------------------ POST
\* route.ts:16-21, up to the await of the request body.
PostCheck(cfg) ==
  /\ stopPc = "idle"
  /\ IF HandleLive(stimulusProcess)
       THEN /\ reply' = [op |-> "start", resp |-> "409"]
            /\ UNCHANGED <<req, nreq>>
       ELSE /\ nreq < MaxStarts
            /\ nreq' = nreq + 1
            /\ req' = [req EXCEPT ![nreq + 1] = [pc |-> "body", cfg |-> cfg, crashed |-> FALSE]]
            /\ reply' = NoReply
  /\ UNCHANGED <<stim, fb, stimulusProcess, feedbackProcess, processError,
                 processExited, statusFile, statusStale, configFile, feedbackFile,
                 stopPc, currentStatus, latest, probe>>
  /\ page' = StartChecked(page, HandleLive(stimulusProcess), nreq + 1)

\* page.tsx:98-110, the checks handleStart makes before it posts.
ValidationError(cfg) ==
  IF cfg.participant_id = "" THEN "Participant ID is required"
  ELSE IF cfg.blocks.trials_per_block % 2 # 0 THEN "Trials per block must be even"
  ELSE IF cfg.timing.rest_min >= cfg.timing.rest_max
    THEN "Rest Min must be less than Rest Max"
  ELSE "ok"

\* The configs the display layer lets through.
ValidConfigs == { c \in Configs : ValidationError(ConfigOf(c)) = "ok" }

\* A client posts a config the display layer would let through.
ApiStart == \E cfg \in ValidConfigs : PostCheck(cfg)

\* A client posts any config: the route is reachable without the page.
ApiStartAny == \E cfg \in Configs : PostCheck(cfg)

\* page.tsx:98-121, handleStart up to its fetch.
HandleStart ==
  \E cfg \in Configs :
    IF ValidationError(ConfigOf(cfg)) # "ok"
      THEN /\ stopPc = "idle"
           /\ reply' = [op |-> "handleStart", resp |-> ValidationError(ConfigOf(cfg))]
           /\ UNCHANGED <<req, nreq, stim, fb, stimulusProcess, feedbackProcess,
                          processError, processExited, statusFile, statusStale,
                          configFile, feedbackFile, stopPc, currentStatus, latest, probe, page>>
      ELSE PostCheck(cfg)

\* A spawn either starts the child or fails to launch it.
Spawned(ok, cfg) ==
  IF ok THEN [st |-> "running", code |-> 0, cfg |-> cfg]
  ELSE [st |-> "gone", code |-> 0, cfg |-> NoConfig]

\* route.ts:23-135, from the request body to the settle timer.  A launch
\* failure raises the child's error event on the next tick, before any
\* other handler runs: its handler (107-112, 129-132) is part of this step.
PostBody(r, okStim, okFb) ==
  /\ stopPc = "idle"
  /\ req[r].pc = "body"
  /\ stim' = [stim EXCEPT ![r] = Spawned(okStim, req[r].cfg)]
  /\ fb' = [fb EXCEPT ![r] = Spawned(okFb, NoConfig).st]
  /\ stimulusProcess' = IF okStim THEN r ELSE 0
  /\ feedbackProcess' = IF okFb THEN r ELSE 0
  /\ processError' = IF okStim THEN "null" ELSE "launch"
  /\ processExited' = ~okStim
  /\ configFile' = req[r].cfg
  /\ statusFile' = Json(InitialStatus(ConfigOf(req[r].cfg)))
  /\ statusStale' = FALSE
  /\ latest' = r
  /\ req' = [req EXCEPT ![r].pc = "settle", ![r].cfg = NoConfig]
  /\ reply' = NoReply
  /\ UNCHANGED <<nreq, feedbackFile, stopPc, currentStatus, probe, page>>

\* route.ts:138-145, after the settle timer.
SettleResponse(exited) == IF exited THEN "500" ELSE "ok"

\* route.ts:139-141, the reason a 500 carries: processError where one was
\* recorded.
SettleError(err) == IF err # "null" THEN err ELSE "Process exited immediately"

PostSettle(r) ==
  /\ stopPc = "idle"
  /\ req[r].pc = "settle"
  /\ req' = [req EXCEPT ![r].pc = "done", ![r].crashed = FALSE]
  /\ reply' = [op |-> "start", resp |-> SettleResponse(processExited)]
  /\ UNCHANGED <<nreq, stim, fb, stimulusProcess, feedbackProcess, processError,
                 processExited, statusFile, statusStale, configFile, feedbackFile,
                 stopPc, currentStatus, latest, probe>>
  /\ page' = StartSettled(page, r, SettleResponse(processExited),
                        SettleError(processError))

\* ------------------------------------------------------- exit handlers
\* The exit handler without its test of the existing state.
ExitStatusUnguarded(file) ==
  IF file.kind = "corrupt" THEN file ELSE Json(ZeroAborted)

\* route.ts:82-102: what the exit handler leaves in status.json.
ExitStatus(file) ==
  IF file.kind = "corrupt" THEN file
  ELSE IF file.kind = "absent" \/ ~IsTerminal(file.doc) THEN Json(ZeroAborted)
  ELSE file

\* The exit handler without its last statement: the handle stays.
StimExitEventKeepsHandle(r) ==
  /\ stopPc = "idle"
  /\ stim[r].st = "dead"
  /\ stim' = [stim EXCEPT ![r].st = "gone", ![r].code = 0]
  /\ processExited' = TRUE
  /\ IF stim[r].code # 0 /\ stim[r].code # NullCode
       THEN /\ processError' = "crash"
            /\ req' = [req EXCEPT ![r].crashed =
                        (req[r].pc = "settle" /\ stimulusProcess = r)]
            /\ statusFile' = ExitStatus(statusFile)
            /\ statusStale' = IF statusFile' = statusFile THEN statusStale
                              ELSE r # latest
       ELSE UNCHANGED <<processError, statusFile, statusStale, req>>
  /\ reply' = NoReply
  /\ UNCHANGED <<nreq, fb, stimulusProcess, feedbackProcess, configFile,
                 feedbackFile, stopPc, currentStatus, latest, probe, page>>

\* route.ts:77-105, the exit event of stimulus child r.
StimExitEvent(r) ==
  /\ stopPc = "idle"
  /\ stim[r].st = "dead"
  /\ stim' = [stim EXCEPT ![r].st = "gone", ![r].code = 0]
  /\ processExited' = TRUE
  /\ IF stim[r].code # 0 /\ stim[r].code # NullCode
       THEN /\ processError' = "crash"
            /\ req' = [req EXCEPT ![r].crashed =
                        (req[r].pc = "settle" /\ stimulusProcess = r)]
            /\ statusFile' = ExitStatus(statusFile)
            /\ statusStale' = IF statusFile' = statusFile THEN statusStale
                              ELSE r # latest
       ELSE UNCHANGED <<processError, statusFile, statusStale, req>>
  /\ stimulusProcess' = 0
  /\ reply' = NoReply
  /\ UNCHANGED <<nreq, fb, feedbackProcess, configFile, feedbackFile,
                 stopPc, currentStatus, latest, probe, page>>

\* The feedback child's exit handler sharing the stimulus child's flag.
FbExitEventSharedFlag(r) ==
  /\ stopPc = "idle"
  /\ fb[r] = "dead"
  /\ fb' = [fb EXCEPT ![r] = "gone"]
  /\ feedbackProcess' = 0
  /\ processExited' = TRUE
  /\ reply' = NoReply
  /\ UNCHANGED <<req, nreq, stim, stimulusProcess, processError,
                 statusFile, statusStale, configFile, feedbackFile, stopPc,
                 currentStatus, latest, probe, page>>

\* route.ts:126-128, the exit event of feedback child r.
FbExitEvent(r) ==
  /\ stopPc = "idle"
  /\ fb[r] = "dead"
  /\ fb' = [fb EXCEPT ![r] = "gone"]
  /\ feedbackProcess' = 0
  /\ reply' = NoReply
  /\ UNCHANGED <<req, nreq, stim, stimulusProcess, processError, processExited,
                 statusFile, statusStale, configFile, feedbackFile, stopPc,
                 currentStatus, latest, probe, page>>

\* ---------------------------------------------------------------- DELETE
\* DELETE with the unlink of feedback.json outside the if block.
StopNoopUnlinks ==
  /\ stopPc = "idle"
  /\ ~HandleLive(stimulusProcess)
  /\ feedbackFile' = 0
  /\ reply' = [op |-> "stop", resp |-> "ok"]
  /\ UNCHANGED <<req, nreq, stim, fb, stimulusProcess, feedbackProcess,
                 processError, processExited, statusFile, statusStale, configFile,
                 stopPc, currentStatus, latest, probe>>
  /\ page' = StopAnswered(page)

\* route.ts:152-153, 185: nothing tracked, nothing done.
StopNoop ==
  /\ stopPc = "idle"
  /\ ~HandleLive(stimulusProcess)
  /\ reply' = [op |-> "stop", resp |-> "ok"]
  /\ UNCHANGED <<req, nreq, stim, fb, stimulusProcess, feedbackProcess,
                 processError, processExited, statusFile, statusStale, configFile,
                 feedbackFile, stopPc, currentStatus, latest, probe>>
  /\ page' = StopAnswered(page)

\* DELETE's read without the catch around JSON.parse: what was read stays
\* in currentStatus.
ParseStatusUncaught(file) == file

\* route.ts:157-160: JSON.parse of status.json, null when it throws.
ParseStatus(file) == IF file.kind = "json" THEN file ELSE Absent

StopRead ==
  /\ stopPc = "idle"
  /\ HandleLive(stimulusProcess)
  /\ currentStatus' = ParseStatus(statusFile)
  /\ stopPc' = "read"
  /\ reply' = NoReply
  /\ UNCHANGED <<req, nreq, stim, fb, stimulusProcess, feedbackProcess,
                 processError, processExited, statusFile, statusStale, configFile,
                 feedbackFile, latest, probe>>
  /\ page' = StopTaken(page)

\* DELETE removing status.json instead of marking it aborted.
StopStatusUnlinks(cur, file) == Absent

\* route.ts:176-183: what DELETE leaves in status.json.
StopStatus(cur, file) ==
  IF cur.kind = "json" /\ ~IsTerminal(cur.doc) THEN Json(AbortedFrom(cur.doc))
  ELSE file

\* DELETE without the statement that clears the stimulus handle.
StopFinishKeepsHandle ==
  /\ stopPc = "read"
  /\ stim' = [stim EXCEPT ![stimulusProcess] = Kill(stim[stimulusProcess])]
  /\ IF HandleLive(feedbackProcess)
       THEN /\ fb' = [fb EXCEPT ![feedbackProcess] = KillFb(fb[feedbackProcess])]
            /\ feedbackProcess' = 0
       ELSE UNCHANGED <<fb, feedbackProcess>>
  /\ feedbackFile' = 0
  /\ statusFile' = StopStatus(currentStatus, statusFile)
  /\ statusStale' = statusStale
  /\ stopPc' = "idle"
  /\ currentStatus' = Absent
  /\ reply' = [op |-> "stop", resp |-> "ok"]
  /\ UNCHANGED <<req, nreq, stimulusProcess, processError, processExited,
                 configFile, latest, probe>>
  /\ page' = StopAnswered(page)

\* route.ts:162-185.
StopFinish ==
  /\ stopPc = "read"
  /\ stim' = [stim EXCEPT ![stimulusProcess] = Kill(stim[stimulusProcess])]
  /\ stimulusProcess' = 0
  /\ IF HandleLive(feedbackProcess)
       THEN /\ fb' = [fb EXCEPT ![feedbackProcess] = KillFb(fb[feedbackProcess])]
            /\ feedbackProcess' = 0
       ELSE UNCHANGED <<fb, feedbackProcess>>
  /\ feedbackFile' = 0
  /\ statusFile' = StopStatus(currentStatus, statusFile)
  /\ statusStale' = statusStale
  /\ stopPc' = "idle"
  /\ currentStatus' = Absent
  /\ reply' = [op |-> "stop", resp |-> "ok"]
  /\ UNCHANGED <<req, nreq, processError, processExited, configFile, latest, probe>>
  /\ page' = StopAnswered(page)

\* ------------------------------------------------- external processes
\* The stimulus child overwrites status.json; a reader may find it
\* half-written.
StimWrite(r) ==
  /\ Alive(stim[r])
  /\ \E f \in { Json(d) : d \in StimDocs(ConfigOf(stim[r].cfg)) } \cup {Corrupt} :
       statusFile' = f
  /\ statusStale' = (r # latest)
  /\ reply' = NoReply
  /\ UNCHANGED <<req, nreq, stim, fb, stimulusProcess, feedbackProcess,
                 processError, processExited, configFile, feedbackFile, stopPc,
                 currentStatus, latest, probe, page>>

\* The stimulus child ends by itself, with code 0 or with a failure code.
StimEnd(r) ==
  /\ Alive(stim[r])
  /\ \E c \in {0, 1} :
       stim' = [stim EXCEPT ![r].st = "dead", ![r].code = c, ![r].cfg = NoConfig]
  /\ reply' = NoReply
  /\ UNCHANGED <<req, nreq, fb, stimulusProcess, feedbackProcess, processError,
                 processExited, statusFile, statusStale, configFile, feedbackFile,
                 stopPc, currentStatus, latest, probe, page>>

\* The feedback child writes a snapshot.
FbWrite(r) ==
  /\ FbAlive(fb[r])
  /\ feedbackFile' = r
  /\ reply' = NoReply
  /\ UNCHANGED <<req, nreq, stim, fb, stimulusProcess, feedbackProcess,
                 processError, processExited, statusFile, statusStale, configFile,
                 stopPc, currentStatus, latest, probe, page>>

\* The feedback child ends by itself (its exit handler ignores the code).
FbEnd(r) ==
  /\ FbAlive(fb[r])
  /\ fb' = [fb EXCEPT ![r] = "dead"]
  /\ reply' = NoReply
  /\ UNCHANGED <<req, nreq, stim, stimulusProcess, feedbackProcess, processError,
                 processExited, statusFile, statusStale, configFile, feedbackFile,
                 stopPc, currentStatus, latest, probe, page>>

\* The feedback child is killed, or read, in the middle of a write:
\* feedback.json holds bytes that JSON.parse rejects.
CorruptFb == -1

FbWriteBad(r) ==
  /\ FbAlive(fb[r])
  /\ feedbackFile' = CorruptFb
  /\ reply' = NoReply
  /\ UNCHANGED <<req, nreq, stim, fb, stimulusProcess, feedbackProcess,
                 processError, processExited, statusFile, statusStale, configFile,
                 stopPc, currentStatus, latest, probe, page>>

\* ----------------------------------------------------------------- reads
\* The reads are handlers of the same Node process as POST and DELETE:
\* none runs inside the synchronous body of DELETE.
Response(code, b) == [resp |-> code, body |-> b]

\* The status read without its default: an error where the file is absent.
StatusResponseNoDefault(file) ==
  IF file.kind = "json" THEN Response("200", file.doc)
  ELSE Response("500", [error |-> "Failed to read status"])

\* api/status route, GET: the idle document when status.json is absent,
\* the parsed file, or 500 when reading or parsing throws.
StatusResponse(file) ==
  IF file.kind = "absent" THEN Response("200", ZeroDoc)
  ELSE IF file.kind = "json" THEN Response("200", file.doc)
  ELSE Response("500", [error |-> "Failed to read status"])

GetStatus ==
  /\ stopPc = "idle"
  /\ reply' = [op |-> "status", resp |-> StatusResponse(statusFile).resp,
               body |-> StatusResponse(statusFile).body]
  /\ UNCHANGED <<req, nreq, stim, fb, stimulusProcess, feedbackProcess,
                 processError, processExited, statusFile, statusStale, configFile,
                 feedbackFile, stopPc, currentStatus, latest, probe>>
  /\ page' = PollAnswered(page, StatusResponse(statusFile))

\* api/feedback/route.ts:9-20 and the snapshot feedback child r writes.
DISCONNECTED_STATE == [connected |-> FALSE, error |-> "Feedback not running", by |-> 0]
Snapshot(r) == [connected |-> TRUE, error |-> "null", by |-> r]

\* api/feedback/route.ts:22-38.
FeedbackResponse(file) ==
  IF file = 0 THEN Response("200", DISCONNECTED_STATE)
  ELSE IF file = CorruptFb THEN Response("500", [error |-> "Failed to read feedback"])
  ELSE Response("200", Snapshot(file))

GetFeedback ==
  /\ stopPc = "idle"
  /\ reply' = [op |-> "feedback", resp |-> FeedbackResponse(feedbackFile).resp,
               body |-> FeedbackResponse(feedbackFile).body]
  /\ UNCHANGED <<req, nreq, stim, fb, stimulusProcess, feedbackProcess,
                 processError, processExited, statusFile, statusStale, configFile,
                 feedbackFile, stopPc, currentStatus, latest, probe, page>>

\* start/route.ts:189-195, the body of the health read.
HealthBody ==
  [running |-> HandleLive(stimulusProcess),
   feedbackRunning |-> HandleLive(feedbackProcess),
   error |-> IF processExited THEN processError ELSE "null"]

\* The health read clearing the recorded error once it has reported it.
GetHealthClearing ==
  /\ stopPc = "idle"
  /\ reply' = [op |-> "health", resp |-> "200", body |-> HealthBody]
  /\ processError' = "null"
  /\ UNCHANGED <<req, nreq, stim, fb, stimulusProcess, feedbackProcess,
                 processExited, statusFile, statusStale, configFile,
                 feedbackFile, stopPc, currentStatus, latest, probe, page>>

GetHealth ==
  /\ stopPc = "idle"
  /\ reply' = [op |-> "health", resp |-> "200", body |-> HealthBody]
  /\ UNCHANGED <<req, nreq, stim, fb, stimulusProcess, feedbackProcess,
                 processError, processExited, statusFile, statusStale, configFile,
                 feedbackFile, stopPc, currentStatus, latest, probe, page>>

\* ------------------------------------------------------- stream discovery
\* What the probe may have printed when it ends: a JSON list of one
\* stream, or text that is not JSON.
ProbeOutputs == {"[eeg]", "Traceback"}

\* route.ts:219-220 of the streams GET: JSON.parse(stdout.trim()).
Parses(out) == out = "[eeg]"
ParseStreams(out) == IF out = "[eeg]" THEN <<"eeg">> ELSE <<>>

\* The callback answering what the probe printed whatever execFile's error.
StreamsBodyIgnoringErr(err, out) ==
  IF Parses(out) THEN ParseStreams(out) ELSE <<>>

\* route.ts:214-225 of the streams GET, the callback of execFile.
StreamsBody(err, out) ==
  IF err # "null" THEN <<>>
  ELSE IF Parses(out) THEN ParseStreams(out) ELSE <<>>

\* route.ts:205-214: the streams GET starts the probe, which may fail to
\* launch.  One call is in flight at a time.
DiscoverCall ==
  /\ stopPc = "idle"
  /\ probe.st \in {"none", "done"}
  /\ \E ok \in BOOLEAN :
       probe' = IF ok THEN [st |-> "running", err |-> "null", stdout |-> ""]
                ELSE [st |-> "ended", err |-> "launch", stdout |-> ""]
  /\ reply' = NoReply
  /\ UNCHANGED <<req, nreq, stim, fb, stimulusProcess, feedbackProcess,
                 processError, processExited, statusFile, statusStale, configFile,
                 feedbackFile, stopPc, currentStatus, latest, page>>

\* The probe ends by itself, with code 0 or a failure code.
ProbeExit ==
  /\ probe.st = "running"
  /\ \E c \in {0, 1}, out \in ProbeOutputs :
       probe' = [st |-> "ended", err |-> IF c = 0 THEN "null" ELSE "exit",
                 stdout |-> out]
  /\ reply' = NoReply
  /\ UNCHANGED <<req, nreq, stim, fb, stimulusProcess, feedbackProcess,
                 processError, processExited, statusFile, statusStale, configFile,
                 feedbackFile, stopPc, currentStatus, latest, page>>

\* The timer without the kill: the probe is left running.
TimedOutNoKill(p) == p

\* execFile's timeout of 5000 ms (route.ts:214): the probe is killed and
\* execFile's error is set before it had printed anything.
TimedOut(p) == [p EXCEPT !.st = "ended", !.err = "timeout"]

ProbeTimeout ==
  /\ stopPc = "idle"
  /\ probe.st = "running"
  /\ probe' = TimedOut(probe)
  /\ reply' = NoReply
  /\ UNCHANGED <<req, nreq, stim, fb, stimulusProcess, feedbackProcess,
                 processError, processExited, statusFile, statusStale, configFile,
                 feedbackFile, stopPc, currentStatus, latest, page>>

\* route.ts:214-225: execFile's callback resolves the response.
DiscoverCallback ==
  /\ stopPc = "idle"
  /\ probe.st = "ended"
  /\ probe' = [probe EXCEPT !.st = "done"]
  /\ reply' = [op |-> "streams", resp |-> "200",
               body |-> StreamsBody(probe.err, probe.stdout)]
  /\ UNCHANGED <<req, nreq, stim, fb, stimulusProcess, feedbackProcess,
                 processError, processExited, statusFile, statusStale, configFile,
                 feedbackFile, stopPc, currentStatus, latest, page>>

\* ------------------------------------------- the display layer's steps
\* Everything but page and reply: what a step of the page leaves alone.
routeVars == <<req, nreq, stim, fb, stimulusProcess, feedbackProcess,
               processError, processExited, statusFile, statusStale,
               configFile, feedbackFile, stopPc, currentStatus, latest, probe>>

\* page.tsx:158-159.
sessionDone(p) == IsTerminal(p.status)

\* React runs a pending effect before it handles a click: the buttons act
\* on a page whose polling effect has run for the isRunning it shows.
Flushed(p) == p.rendered = p.isRunning

\* A state setter of a component that is no longer mounted does nothing.
SetState(p, q) ==
  IF p.mounted THEN q
  ELSE [q EXCEPT !.status = p.status, !.isRunning = p.isRunning,
                 !.error = p.error, !.starting = p.starting]

\* page.tsx:64-67, 142-145: clearInterval of the timer the ref holds.
ClearPolling(p) ==
  [p EXCEPT !.timers = p.timers \ {p.pollingRef}, !.pollingRef = 0]

\* The cleanup leaving the interval set.
CleanupKeepsTimer(p) == p

\* page.tsx:79-84, the cleanup of the polling effect.
Cleanup(p) == ClearPolling(p)

\* page.tsx:75-85: the cleanup of the last run, then the effect for the
\* isRunning just rendered.
RunEffect(p) ==
  LET c == Cleanup(p)
      t == FirstOf(Timers \ c.timers)
  IN IF p.isRunning /\ c.pollingRef = 0
       THEN [c EXCEPT !.timers = c.timers \cup {t}, !.pollingRef = t,
                      !.rendered = TRUE]
     ELSE [c EXCEPT !.rendered = p.isRunning]

\* page.tsx:55-57: pollStatus up to its fetch, which takes the first free
\* slot.
FreePolls(p) == { i \in Polls : p.polls[i].st = "free" }
PollSent(p) ==
  [p EXCEPT !.polls[FirstOf(FreePolls(p))] =
     [st |-> "sent", resp |-> "", body |-> ZeroDoc]]

\* page.tsx:98-121, handleStart up to its fetch, on the page: the Start
\* button shows while the page is not running and shows no finished
\* session, and is disabled while a start is in flight.
ClickStart ==
  /\ page.mounted /\ Flushed(page)
  /\ ~page.isRunning /\ ~sessionDone(page) /\ ~page.starting
  /\ \E cfg \in Configs :
       IF ValidationError(ConfigOf(cfg)) # "ok"
         THEN /\ page' = [page EXCEPT !.error = ValidationError(ConfigOf(cfg))]
              /\ reply' = [op |-> "handleStart",
                           resp |-> ValidationError(ConfigOf(cfg))]
         ELSE /\ nreq < MaxStarts
              /\ page' = [page EXCEPT !.error = "null", !.status = IDLE_STATUS,
                                      !.starting = TRUE, !.start.st = "sent",
                                      !.start.cfg = cfg]
              /\ reply' = NoReply
  /\ UNCHANGED routeVars

\* The page's POST reaches the route.
ServeStart ==
  /\ page.start.st = "sent"
  /\ PostCheck(page.start.cfg)

\* handleStart setting isRunning whatever the answer.
StartOutcomeAlwaysRuns(p) ==
  [p EXCEPT !.isRunning = TRUE, !.starting = FALSE]

\* page.tsx:123-135, handleStart after its fetch.
StartOutcome(p) ==
  IF p.start.resp # "ok"
    THEN [p EXCEPT !.error = p.start.error, !.starting = FALSE]
  ELSE [p EXCEPT !.isRunning = TRUE, !.starting = FALSE]

StartResponse ==
  /\ page.start.st = "answered"
  /\ page' = [SetState(page, StartOutcome(page)) EXCEPT !.start = NoCall]
  /\ reply' = [op |-> "handleStart",
               resp |-> IF page.start.resp = "ok" THEN "ok" ELSE page.start.error]
  /\ UNCHANGED routeVars

\* page.tsx:75-85: the polling effect runs after a render in which
\* isRunning changed.
PollingEffect ==
  /\ page.mounted /\ ~Flushed(page)
  /\ page.timers # Timers
  /\ page' = RunEffect(page)
  /\ reply' = NoReply
  /\ UNCHANGED routeVars

\* page.tsx:77: the interval fires and calls pollStatus.
PollTick ==
  /\ page.timers # {}
  /\ FreePolls(page) # {}
  /\ page' = PollSent(page)
  /\ reply' = NoReply
  /\ UNCHANGED routeVars

\* page.tsx:88-96: the tab becomes visible while the page is running.
OnVisible ==
  /\ page.mounted /\ page.isRunning
  /\ FreePolls(page) # {}
  /\ page' = PollSent(page)
  /\ reply' = NoReply
  /\ UNCHANGED routeVars

\* A status fetch of the page reaches the status route.
ServePoll ==
  /\ SentPolls(page) # {}
  /\ GetStatus

\* page.tsx:58-69, pollStatus after its fetch.
PollOutcome(p, res) ==
  IF res.resp # "200" THEN p
  ELSE IF IsTerminal(res.body)
    THEN [ClearPolling(p) EXCEPT !.status = res.body, !.isRunning = FALSE]
  ELSE [p EXCEPT !.status = res.body]

PollResponse(i) ==
  /\ page.polls[i].st = "answered"
  /\ page' = [SetState(page, PollOutcome(page, page.polls[i]))
                EXCEPT !.polls[i] = FreePoll]
  /\ reply' = [op |-> "pollStatus", resp |-> page.polls[i].resp,
               body |-> page.polls[i].body]
  /\ UNCHANGED routeVars

\* page.tsx:138-140, handleStop up to its fetch: the Stop button shows
\* while the page is running.  One DELETE of the page is in flight at a
\* time.
ClickStop ==
  /\ page.mounted /\ Flushed(page)
  /\ page.isRunning
  /\ page.stop = "none"
  /\ page' = [page EXCEPT !.stop = "sent"]
  /\ reply' = NoReply
  /\ UNCHANGED routeVars

\* The page's DELETE reaches the route, which tracks no child, or one.
ServeStopNoop ==
  /\ page.stop = "sent"
  /\ StopNoop

ServeStopRead ==
  /\ page.stop = "sent"
  /\ StopRead

\* page.tsx:141-146, handleStop after its fetch, up to the fetch of the
\* pollStatus it awaits.
StopResponse ==
  /\ page.stop = "answered"
  /\ FreePolls(page) # {}
  /\ page' = [PollSent(SetState(page, [ClearPolling(page) EXCEPT !.isRunning = FALSE]))
                EXCEPT !.stop = "none"]
  /\ reply' = [op |-> "handleStop", resp |-> "ok"]
  /\ UNCHANGED routeVars

\* page.tsx:152-156, handleReset: the New Session button shows while the
\* page shows a finished session.  The render of a click runs the effects
\* before the handler returns to the browser.
ClickReset ==
  /\ page.mounted /\ Flushed(page)
  /\ sessionDone(page)
  /\ page' = RunEffect([page EXCEPT !.status = IDLE_STATUS, !.isRunning = FALSE,
                                    !.error = "null"])
  /\ reply' = [op |-> "handleReset", resp |-> "ok"]
  /\ UNCHANGED routeVars

\* The page is left: React runs the cleanup of the polling effect
\* (page.tsx:79-84), after the effect itself where it was still due.
Unmount ==
  /\ page.mounted
  /\ page.timers # Timers
  /\ page' = [Cleanup(IF Flushed(page) THEN page ELSE RunEffect(page))
                EXCEPT !.mounted = FALSE]
  /\ reply' = NoReply
  /\ UNCHANGED routeVars

\* The stimulus side: the route's handlers and the stimulus child.  The
\* feedback child is spawned and killed here; what it does by itself
\* (FbWrite, FbEnd, FbExitEvent, a failed launch) touches only fb,
\* feedbackProcess and feedbackFile, which no handler below reads to decide
\* anything about the stimulus child or status.json, and is left to SpecFb.
Next ==
  \/ ApiStart
  \/ \E r \in Sessions, okStim \in BOOLEAN : PostBody(r, okStim, TRUE)
  \/ \E r \in Sessions : PostSettle(r)
  \/ \E r \in Sessions : StimExitEvent(r)
  \/ StopNoop
  \/ StopRead
  \/ StopFinish
  \/ \E r \in Sessions : StimWrite(r)
  \/ \E r \in Sessions : StimEnd(r)

Spec == Init /\ [][Next]_vars

\* Any client, and the display layer's start button.
NextAny ==
  \/ Next
  \/ ApiStartAny
  \/ HandleStart

SpecAny == Init /\ [][NextAny]_vars

\* The stimulus side together with the snapshots the feedback child
\* writes to feedback.json.
NextSnap ==
  \/ Next
  \/ \E r \in Sessions : FbWrite(r)

SpecSnap == Init /\ [][NextSnap]_vars

\* The feedback side added: the feedback child fails to launch, writes
\* snapshots, ends, and its exit event reaches the route.
NextFb ==
  \/ Next
  \/ \E r \in Sessions, okStim \in BOOLEAN : PostBody(r, okStim, FALSE)
  \/ \E r \in Sessions : FbExitEvent(r)
  \/ \E r \in Sessions : FbWrite(r)
  \/ \E r \in Sessions : FbEnd(r)

SpecFb == Init /\ [][NextFb]_vars

\* The stimulus side with all the feedback child may do to the route: fail
\* to launch, end at any time, and have its exit event handled.
NextSide ==
  \/ Next
  \/ \E r \in Sessions, okStim \in BOOLEAN : PostBody(r, okStim, FALSE)
  \/ \E r \in Sessions : FbExitEvent(r)
  \/ \E r \in Sessions : FbEnd(r)

SpecSide == Init /\ [][NextSide]_vars

\* The observers added: the three polled reads, over the stimulus side
\* and the feedback child's writes to feedback.json.
NextPoll ==
  \/ Next
  \/ \E r \in Sessions : FbWrite(r)
  \/ \E r \in Sessions : FbWriteBad(r)
  \/ GetStatus
  \/ GetFeedback
  \/ GetHealth

SpecPoll == Init /\ [][NextPoll]_vars

\* The observers and stream discovery beside the stimulus side.
NextWatch ==
  \/ Next
  \/ GetStatus
  \/ GetFeedback
  \/ GetHealth
  \/ DiscoverCall
  \/ ProbeExit
  \/ ProbeTimeout
  \/ DiscoverCallback

SpecWatch == Init /\ [][NextWatch]_vars

\* Stream discovery is a route of its own that shares no variable and no
\* file with the others: it is taken beside sessions that start and end.
NextDisc ==
  \/ ApiStart
  \/ \E r \in Sessions, okStim \in BOOLEAN : PostBody(r, okStim, TRUE)
  \/ \E r \in Sessions : PostSettle(r)
  \/ \E r \in Sessions : StimEnd(r)
  \/ \E r \in Sessions : StimExitEvent(r)
  \/ DiscoverCall
  \/ ProbeExit
  \/ ProbeTimeout
  \/ DiscoverCallback

SpecDisc == Init /\ [][NextDisc]_vars

\* Node runs a due timer and a due callback; nothing makes the probe end
\* by itself.
SpecDiscFair ==
  /\ SpecDisc
  /\ WF_vars(ProbeTimeout)
  /\ WF_vars(DiscoverCallback)

\* The page as the only client of the route: its buttons, its fetches and
\* their answers, its polling timer, over the stimulus side.
NextUi ==
  \/ ClickStart
  \/ ServeStart
  \/ \E r \in Sessions, okStim \in BOOLEAN : PostBody(r, okStim, TRUE)
  \/ \E r \in Sessions : PostSettle(r)
  \/ StartResponse
  \/ PollingEffect
  \/ PollTick
  \/ OnVisible
  \/ ServePoll
  \/ \E i \in Polls : PollResponse(i)
  \/ ClickStop
  \/ ServeStopNoop
  \/ ServeStopRead
  \/ StopFinish
  \/ StopResponse
  \/ ClickReset
  \/ Unmount
  \/ \E r \in Sessions : StimExitEvent(r)
  \/ \E r \in Sessions : StimWrite(r)
  \/ \E r \in Sessions : StimEnd(r)

SpecUi == Init /\ [][NextUi]_vars

\* The browser and Node run what is due: a fetch reaches the route and is
\* answered, an answer reaches the page, a set interval fires, a pending
\* effect runs, an exit event is handled.  Nothing makes the user click
\* or the child write or end.
SpecUiFair ==
  /\ SpecUi
  /\ WF_vars(ServeStart)
  /\ WF_vars(\E r \in Sessions, okStim \in BOOLEAN : PostBody(r, okStim, TRUE))
  /\ WF_vars(\E r \in Sessions : PostSettle(r))
  /\ WF_vars(StartResponse)
  /\ WF_vars(PollingEffect)
  /\ WF_vars(PollTick)
  /\ WF_vars(ServePoll)
  /\ WF_vars(\E i \in Polls : PollResponse(i))
  /\ WF_vars(ServeStopNoop)
  /\ WF_vars(ServeStopRead)
  /\ WF_vars(StopFinish)
  /\ WF_vars(StopResponse)
  /\ WF_vars(\E r \in Sessions : StimExitEvent(r))

TypeOK ==
  /\ nreq \in 0..MaxStarts
  /\ stimulusProcess \in 0..MaxStarts
  /\ feedbackProcess \in 0..MaxStarts
  /\ stopPc \in {"idle", "read"}
  /\ statusFile.kind \in {"absent", "corrupt", "json"}

\* ------------------------------------------------------------- claims
\* A step in which a POST call went through its check: it either took a
\* slot or was answered 409.
StartCalled ==
  \/ nreq' # nreq
  \/ reply' = [op |-> "start", resp |-> "409"]

\* C1: a start called while a stimulus handle is tracked is answered 409
\* and changes nothing: status.json, config.json, both handles, the
\* recorded error and the children are as before, and nothing is spawned.
C1_ConflictMutatesNothing ==
  [][ (stimulusProcess # 0 /\ StartCalled) =>
        /\ reply' = [op |-> "start", resp |-> "409"]
        /\ UNCHANGED <<statusFile, configFile, feedbackFile, stimulusProcess,
                       feedbackProcess, processError, processExited, stim, fb,
                       req, nreq>> ]_vars

\* C1's case: a start was answered 409 while the handle is tracked.
C1_Witness ==
  /\ reply = [op |-> "start", resp |-> "409"]
  /\ stimulusProcess # 0
  /\ Alive(stim[stimulusProcess])

AliveStimuli == { r \in Sessions : Alive(stim[r]) }
AliveFeedbacks == { r \in Sessions : FbAlive(fb[r]) }

\* C2: in every reachable state at most one stimulus child is alive.
C2_AtMostOneStimulus == Cardinality(AliveStimuli) <= 1

\* C3: in every reachable state at most one feedback child is alive.
C3_AtMostOneFeedback == Cardinality(AliveFeedbacks) <= 1

\* The exit event of stimulus child r is handled in this step.
ExitHandled(r) == stim[r].st = "dead" /\ stim'[r].st = "gone"

\* C4: the exit handler, run with a non-zero code while status.json reads
\* completed or aborted, leaves status.json as it is.
C4_ExitKeepsTerminal ==
  [][ \A r \in Sessions :
        ( /\ ExitHandled(r)
          /\ stim[r].code # 0 /\ stim[r].code # NullCode
          /\ statusFile.kind = "json"
          /\ statusFile.doc.state \in {"completed", "aborted"} )
        => statusFile' = statusFile ]_vars

\* C4's case: the only child there ever was wrote completed and exited
\* with a failure code; its exit handler has run and status.json reads
\* completed.
C4_Witness ==
  /\ nreq = 1
  /\ req[1].crashed
  /\ stim[1].st = "gone"
  /\ processError = "crash"
  /\ statusFile.kind = "json"
  /\ statusFile.doc.state = "completed"

\* DELETE returns in this step, having found a handle to stop.
StopReturns == stopPc = "read" /\ stopPc' = "idle"

\* C5: stop never replaces a completed document by an aborted one: if
\* status.json reads completed when stop terminates the child and writes,
\* it reads completed when stop returns.
C5_StopKeepsCompleted ==
  [][ ( /\ StopReturns
        /\ statusFile.kind = "json"
        /\ statusFile.doc.state = "completed" )
      => statusFile' = statusFile ]_vars

\* C6: stop, called with a handle tracked while status.json holds a
\* non-terminal document D, leaves D with state aborted and phase none and
\* every other field as in D.
C6_StopPreservesProgress ==
  [][ /\ ( /\ stopPc = "idle" /\ stopPc' = "read"
           /\ statusFile.kind = "json" )
         => currentStatus' = statusFile
      /\ ( /\ StopReturns
           /\ currentStatus.kind = "json"
           /\ currentStatus.doc.state \notin {"completed", "aborted"} )
         => statusFile' =
              Json(Doc("aborted", "none",
                       currentStatus.doc.current_trial,
                       currentStatus.doc.total_trials,
                       currentStatus.doc.current_block,
                       currentStatus.doc.total_blocks,
                       currentStatus.doc.bad_trials,
                       currentStatus.doc.elapsed_seconds,
                       currentStatus.doc.output_file)) ]_vars

\* C6's case: a stop has turned a document with recorded progress into an
\* aborted one that still shows the progress.
C6_Witness ==
  /\ reply = [op |-> "stop", resp |-> "ok"]
  /\ stopPc = "idle"
  /\ statusFile.kind = "json"
  /\ statusFile.doc.state = "aborted"
  /\ statusFile.doc.phase = "none"
  /\ statusFile.doc.current_trial = 1
  /\ statusFile.doc.bad_trials = 1
  /\ statusFile.doc.elapsed_seconds = 1
  /\ statusFile.doc.total_trials = 2
  /\ statusFile.doc.output_file = "out.csv"

\* C7: stop with no stimulus handle tracked answers success and changes
\* none of status.json, config.json and feedback.json.
C7_StopNoopTouchesNoFile ==
  [][ (stimulusProcess = 0 /\ reply'.op = "stop") =>
        /\ reply'.resp = "ok"
        /\ UNCHANGED <<statusFile, configFile, feedbackFile, stim, fb,
                       stimulusProcess, feedbackProcess>> ]_vars

\* C7's case: stop was answered with nothing tracked, after a session
\* that left all three files behind.
C7_Witness ==
  /\ reply = [op |-> "stop", resp |-> "ok"]
  /\ stimulusProcess = 0
  /\ statusFile.kind = "json"
  /\ statusFile.doc.state = "completed"
  /\ configFile # NoConfig
  /\ feedbackFile # 0

\* The POST call r writes its files and spawns its children in this step.
Spawns(r) == req[r].pc = "body" /\ req'[r].pc = "settle"

\* C8: an accepted start writes the submitted config and the practice
\* document with the config's totals in the step that spawns its children,
\* and once a child of the latest start exists status.json is never a
\* document of an earlier session.
C8_FreshStatusBeforeSpawn ==
  [][ /\ \A r \in Sessions :
           Spawns(r) =>
             /\ configFile' = req[r].cfg
             /\ statusFile' =
                  Json(Doc("practice", "none", 0,
                           ConfigOf(req[r].cfg).blocks.trials_per_block, 0,
                           ConfigOf(req[r].cfg).blocks.num_blocks, 0, 0, ""))
      /\ (latest' # 0 /\ (stim'[latest'].st # "none" \/ fb'[latest'] # "none"))
           => ~(statusStale' /\ statusFile'.kind = "json") ]_vars

\* The POST call r returns from its settle wait in this step.
Settles(r) == req[r].pc = "settle" /\ req'[r].pc = "done"

\* C9: when the only start made so far returns after its stimulus child,
\* still tracked, exited with a failure code during the settle wait, it
\* returns an error and status.json reads the zeroed aborted
\* document, or a terminal document the child wrote itself.
C9_EarlyCrashAborts ==
  [][ \A r \in Sessions :
        ( /\ Settles(r)
          /\ req[r].crashed
          /\ nreq = 1 )
        => /\ reply'.resp = "500"
           /\ statusFile'.kind = "json"
           /\ \/ statusFile'.doc = Doc("aborted", "none", 0, 0, 0, 0, 0, 0, "")
              \/ statusFile'.doc.state \in {"completed", "aborted"} ]_vars

\* C10: no config with an odd trials_per_block is ever written to
\* config.json or handed to a child.
C10_OddConfigRejected ==
  /\ ConfigOf(configFile).blocks.trials_per_block % 2 = 0
  /\ \A r \in Sessions : ConfigOf(stim[r].cfg).blocks.trials_per_block % 2 = 0

\* C11: no config with rest_min >= rest_max is ever written to config.json
\* or handed to a child.
C11_RestRangeRejected ==
  /\ configFile # NoConfig =>
       ConfigOf(configFile).timing.rest_min < ConfigOf(configFile).timing.rest_max
  /\ \A r \in Sessions :
       stim[r].cfg # NoConfig =>
         ConfigOf(stim[r].cfg).timing.rest_min < ConfigOf(stim[r].cfg).timing.rest_max

\* C12: the status read answers the document status.json holds, or the
\* idle document with every counter zero when there is no status.json; the
\* feedback read answers the snapshot feedback.json holds, or the
\* disconnected document when there is no feedback.json; neither answers
\* an error in those cases.
C12_ReadsReturnLastWritten ==
  [][ /\ (reply'.op = "status" /\ statusFile.kind = "json") =>
           (reply'.resp = "200" /\ reply'.body = statusFile.doc)
      /\ (reply'.op = "status" /\ statusFile.kind = "absent") =>
           /\ reply'.resp = "200"
           /\ reply'.body = Doc("idle", "none", 0, 0, 0, 0, 0, 0, "")
      /\ (reply'.op = "feedback" /\ feedbackFile > 0) =>
           /\ reply'.resp = "200"
           /\ reply'.body.connected /\ reply'.body.by = feedbackFile
      /\ (reply'.op = "feedback" /\ feedbackFile = 0) =>
           /\ reply'.resp = "200"
           /\ ~reply'.body.connected
           /\ reply'.body.error = "Feedback not running" ]_vars

\* C12's case: a poll has returned the progress document the stimulus
\* child wrote, while feedback.json holds a snapshot.
C12_Witness ==
  /\ reply.op = "status"
  /\ reply.resp = "200"
  /\ reply.body.state = "running"
  /\ reply.body.current_trial = 1
  /\ statusFile = Json(reply.body)
  /\ feedbackFile > 0

\* C13: a read of an unparseable status.json answers the idle document,
\* a read of an unparseable feedback.json the disconnected document, and
\* neither answers an error.
C13_CorruptReadsDefault ==
  [][ /\ (reply'.op = "status" /\ statusFile.kind = "corrupt") =>
           /\ reply'.resp = "200"
           /\ reply'.body = Doc("idle", "none", 0, 0, 0, 0, 0, 0, "")
      /\ (reply'.op = "feedback" /\ feedbackFile = CorruptFb) =>
           /\ reply'.resp = "200"
           /\ ~reply'.body.connected ]_vars

\* The reads whose answer is taken from the files and the route's variables.
PolledReads == {"status", "feedback", "health"}

\* C14: the reads change no state: a status, feedback or health read and
\* every step of stream discovery leave status.json, config.json,
\* feedback.json, both handles, the recorded error and the children as they
\* were, and a read that follows the same read with no step between them
\* gives the same answer.
C14_ReadsChangeNothing ==
  [][ /\ (reply'.op \in PolledReads \/ probe' # probe) =>
           UNCHANGED <<statusFile, configFile, feedbackFile, stimulusProcess,
                       feedbackProcess, processError, processExited, stim, fb,
                       req, nreq>>
      /\ (reply'.op \in PolledReads /\ reply.op = reply'.op) =>
           reply' = reply ]_vars

\* C14's case: the health read has reported a crash, with the error still
\* recorded and a discovery probe in flight.
C14_Witness ==
  /\ reply.op = "health"
  /\ reply.body.error = "crash"
  /\ ~reply.body.running
  /\ processError = "crash"
  /\ statusFile.kind = "json"
  /\ probe.st = "running"

\* The streams GET answers in this step.
DiscoverAnswers == probe.st = "ended" /\ probe'.st = "done"

\* C15: stream discovery always answers a list and never an error: the
\* empty list when the probe timed out, failed to launch, exited with an
\* error or printed what does not parse, and the probe's list only when
\* the probe ended without error and printed a list that parses.
C15_DiscoveryDegradesToEmpty ==
  [][ DiscoverAnswers =>
        /\ reply'.op = "streams"
        /\ reply'.resp = "200"
        /\ (probe.err \in {"timeout", "launch", "exit"} \/ probe.stdout # "[eeg]")
             => reply'.body = <<>>
        /\ (probe.err = "null" /\ probe.stdout = "[eeg]")
             => reply'.body = <<"eeg">> ]_vars

\* C15's case: the probe printed a list and exited with an error, and the
\* call answered the empty list.
C15_Witness ==
  /\ probe.st = "done"
  /\ probe.err = "exit"
  /\ probe.stdout = "[eeg]"
  /\ reply = [op |-> "streams", resp |-> "200", body |-> <<>>]

\* C16: every streams GET in flight is answered, and one whose probe was
\* still running at the timeout is answered the empty list.
C16_DiscoveryReturns ==
  /\ (probe.st \in {"running", "ended"}) ~> (probe.st = "done" /\ reply.op = "streams")
  /\ (probe.st = "ended" /\ probe.err = "timeout")
       ~> (probe.st = "done" /\ reply = [op |-> "streams", resp |-> "200", body |-> <<>>])

\* C16's case: the probe ran into the timeout and the call was answered
\* the empty list.
C16_Witness ==
  /\ probe.st = "done"
  /\ probe.err = "timeout"
  /\ reply.op = "streams"
  /\ reply.body = <<>>

\* The exit event of stimulus child r, handled in this step, carries a
\* failure code.
CrashHandled(r) ==
  ExitHandled(r) /\ stim[r].code # 0 /\ stim[r].code # NullCode

\* C17: when the stimulus child of the only start made so far exits with a
\* failure code after that start has returned, the start is not answered
\* again, status.json reads aborted unless it already read completed or
\* aborted, and the health read reports running = false and an error.
C17_LateCrashVisible ==
  [][ \A r \in Sessions :
        ( /\ CrashHandled(r)
          /\ req[r].pc = "done"
          /\ nreq = 1 )
        => /\ req' = req
           /\ reply'.op # "start"
           /\ statusFile'.kind = "json"
           /\ IF statusFile.kind = "json" /\
                 statusFile.doc.state \in {"completed", "aborted"}
                THEN statusFile' = statusFile
                ELSE statusFile'.doc.state = "aborted"
           /\ ~HealthBody'.running
           /\ HealthBody'.error # "null" ]_vars

\* C18: the health read's error turns non-null only when the stimulus
\* child of the latest start exits with a failure code or fails to launch,
\* and it is null once a start has spawned its stimulus child.
C18_ErrorOnlyOfLatestCrash ==
  [][ /\ (HealthBody.error = "null" /\ HealthBody'.error # "null") =>
           /\ latest' # 0
           /\ \/ CrashHandled(latest')
              \/ Spawns(latest') /\ stim'[latest'].st = "gone"
      /\ \A r \in Sessions :
           (Spawns(r) /\ Alive(stim'[r])) => HealthBody'.error = "null" ]_vars

\* What start answers and what status.json holds are decided from these.
StimulusSide ==
  <<req, nreq, stim, stimulusProcess, processError, processExited, statusFile,
    configFile>>

\* C19: the feedback child has no part in what start answers or in what
\* status.json holds.  Whatever the feedback child does (a failed launch,
\* its end, its exit event), the step leaves everything start and
\* status.json are decided from as it was and answers no start; a start
\* that spawns sets the exit flag, the error, the handle and status.json
\* from the stimulus child's launch alone; and start answers by the exit
\* flag alone.
C19_FeedbackDoesNotInterfere ==
  [][ /\ ( /\ fb' # fb \/ feedbackProcess' # feedbackProcess
           /\ \A r \in Sessions : ~Spawns(r)
           /\ ~StopReturns )
         => (UNCHANGED StimulusSide /\ reply'.op # "start")
      /\ \A r \in Sessions :
           Spawns(r) =>
             /\ processExited' = ~Alive(stim'[r])
             /\ processError' = IF Alive(stim'[r]) THEN "null" ELSE "launch"
             /\ stimulusProcess' = IF Alive(stim'[r]) THEN r ELSE 0
             /\ statusFile' = Json(InitialStatus(ConfigOf(req[r].cfg)))
             /\ configFile' = req[r].cfg
      /\ \A r \in Sessions :
           Settles(r) =>
             /\ reply' = [op |-> "start",
                          resp |-> IF processExited THEN "500" ELSE "ok"]
             /\ statusFile' = statusFile ]_vars

\* C19's case: start has answered success and status.json holds the
\* practice document although the feedback child failed to launch.
C19_Witness ==
  /\ reply = [op |-> "start", resp |-> "ok"]
  /\ latest # 0
  /\ fb[latest] = "gone"
  /\ feedbackProcess = 0
  /\ Alive(stim[latest])
  /\ statusFile.kind = "json"
  /\ statusFile.doc.state = "practice"

\* C20: when a stop that ended a session returns, feedback.json is gone
\* and no feedback child spawned so far is left running: nothing but the
\* feedback child of a later start can write a snapshot, so the feedback
\* read answers the disconnected document until one does.
C20_StopSilencesFeedback ==
  [][ StopReturns =>
        /\ feedbackFile' = 0
        /\ FeedbackResponse(feedbackFile').body = DISCONNECTED_STATE
        /\ \A r \in Sessions : ~FbAlive(fb'[r]) ]_vars

\* C21: every stop answers success.  A stop that finds a handle reads an
\* unparseable status.json as it reads an absent one, as null, and then
\* ends the tracked children, removes feedback.json and leaves status.json
\* as it is.
C21_StopToleratesAnyState ==
  [][ /\ reply'.op = "stop" => reply'.resp = "ok"
      /\ (stopPc = "idle" /\ stopPc' = "read" /\ statusFile.kind # "json")
           => currentStatus' = Absent
      /\ (StopReturns /\ currentStatus = Absent) =>
           /\ statusFile' = statusFile
           /\ feedbackFile' = 0
           /\ ~Alive(stim'[stimulusProcess])
           /\ feedbackProcess # 0 => ~FbAlive(fb'[feedbackProcess])
           /\ stimulusProcess' = 0 ]_vars

\* C21's case: a stop has returned with status.json unparseable and left
\* unparseable, feedback.json removed and both children of the session ended.
C21_Witness ==
  /\ reply = [op |-> "stop", resp |-> "ok"]
  /\ statusFile = Corrupt
  /\ feedbackFile = 0
  /\ nreq = 1
  /\ stim[1].st = "dead" /\ stim[1].code = NullCode
  /\ fb[1] = "dead"
  /\ stimulusProcess = 0 /\ feedbackProcess = 0

\* C22: an accepted start answers an error when the exit or launch error
\* of the stimulus child it spawned has reached the route by the end of
\* its settle wait, and success when that child is still running.
C22_SettleReportsOwnChild ==
  [][ \A r \in Sessions :
        Settles(r) =>
          /\ stim[r].st = "gone" => reply' = [op |-> "start", resp |-> "500"]
          /\ stim[r].st = "running" => reply' = [op |-> "start", resp |-> "ok"] ]_vars

\* C23: a start whose stimulus child fails to launch clears the stimulus
\* handle, records the failed-to-launch reason, leaves status.json as it
\* was before the start, and, when it is the only start made, answers an
\* error.
C23_LaunchFailureLeavesStatus ==
  [][ \A r \in Sessions :
        /\ (Spawns(r) /\ stim'[r].st = "gone") =>
             /\ stimulusProcess' = 0
             /\ processError' = "launch"
             /\ statusFile' = statusFile
        /\ (Settles(r) /\ nreq = 1 /\ processError = "launch") =>
             reply' = [op |-> "start", resp |-> "500"] ]_vars

\* C24: of two starts in flight together at most one writes and spawns: no
\* start writes status.json and spawns while another start, still in its
\* settle wait, has its stimulus child running.
C24_OneStartProceeds ==
  [][ \A r \in Sessions :
        Spawns(r) =>
          \A q \in Sessions \ {r} : ~(req[q].pc = "settle" /\ Alive(stim[q])) ]_vars

\* C25: config.json changes only in the step in which an accepted start
\* writes it, and no start writes it while a stimulus child is alive.
C25_ConfigWrittenOncePerSession ==
  [][ /\ (\A r \in Sessions : ~Spawns(r)) => configFile' = configFile
      /\ \A r \in Sessions :
           Spawns(r) => \A q \in Sessions : ~Alive(stim[q]) ]_vars

\* The document d with only state and phase moved to aborted and none.
OnlyStateAndPhaseMoved(d) ==
  Doc("aborted", "none", d.current_trial, d.total_trials, d.current_block,
      d.total_blocks, d.bad_trials, d.elapsed_seconds, d.output_file)

\* C26: whenever the exit handler or stop turns a persisted document into
\* an aborted one, the new document is the previous one (for stop, the one
\* it read) with only state and phase changed.
C26_AbortKeepsCounters ==
  [][ /\ \A r \in Sessions :
           ( /\ ExitHandled(r)
             /\ statusFile.kind = "json"
             /\ statusFile' # statusFile )
           => statusFile' = Json(OnlyStateAndPhaseMoved(statusFile.doc))
      /\ ( /\ StopReturns
           /\ currentStatus.kind = "json"
           /\ statusFile' # statusFile )
         => statusFile' = Json(OnlyStateAndPhaseMoved(currentStatus.doc)) ]_vars

\* C27: for the one session there is, a stop and the exit event with a
\* failure code in either order leave status.json terminal, and the later
\* of the two does not write: the exit handler leaves a terminal document
\* as it is and ends with a terminal document, and a stop that finds no
\* handle writes nothing.
C27_StopAndExitEitherOrder ==
  [][ /\ \A r \in Sessions :
           (CrashHandled(r) /\ nreq = 1) =>
             /\ statusFile'.kind = "json"
             /\ statusFile'.doc.state \in {"completed", "aborted"}
             /\ (statusFile.kind = "json" /\
                 statusFile.doc.state \in {"completed", "aborted"})
                  => statusFile' = statusFile
      /\ (reply'.op = "stop" /\ stimulusProcess = 0 /\ nreq = 1)
           => statusFile' = statusFile ]_vars

\* C28: after any stop has returned the health read reports running =
\* false and feedbackRunning = false, and the feedback child that was
\* tracked and running when stop was called is running no more.
C28_StopClearsBothHandles ==
  [][ reply'.op = "stop" =>
        /\ ~HealthBody'.running
        /\ ~HealthBody'.feedbackRunning
        /\ feedbackProcess # 0 => ~FbAlive(fb'[feedbackProcess]) ]_vars

\* C29: a start is answered 409 only while a handle is tracked whose exit
\* event has not been handled; stop, the exit event of the tracked child
\* and its failure to launch each clear the handle, and a start called
\* with no handle tracked is not answered 409.
C29_ConflictOnlyWhileTracked ==
  [][ /\ reply' = [op |-> "start", resp |-> "409"] =>
           /\ stimulusProcess # 0
           /\ stim[stimulusProcess].st \in {"running", "dead"}
      /\ StopReturns => stimulusProcess' = 0
      /\ \A r \in Sessions :
           (ExitHandled(r) /\ stimulusProcess = r) => stimulusProcess' = 0
      /\ \A r \in Sessions :
           (Spawns(r) /\ stim'[r].st = "gone") => stimulusProcess' = 0
      /\ (stimulusProcess = 0 /\ StartCalled) => nreq' = nreq + 1 ]_vars

\* C29's case: a second start has passed the check right after a stop
\* returned, before the exit event of the killed child was handled.
C29_Witness ==
  /\ nreq = 2
  /\ req[2].pc = "body"
  /\ req[1].pc = "done"
  /\ stim[1].st = "dead"
  /\ stim[1].code = NullCode
  /\ stimulusProcess = 0

\* C30: the exit event of a stimulus child that stop has killed, handled
\* while the running child of a later start is tracked, leaves that
\* tracking alone: the handle stays and the health read reports running.
C30_StaleExitKeepsTracking ==
  [][ \A r \in Sessions :
        ( /\ ExitHandled(r)
          /\ stim[r].code = NullCode
          /\ stimulusProcess \notin {0, r}
          /\ Alive(stim[stimulusProcess]) )
        => /\ stimulusProcess' = stimulusProcess
           /\ HealthBody'.running ]_vars

\* C31: a start answers the process-exited error only when the stimulus
\* child it spawned is no longer running.
C31_ErrorOnlyForOwnExit ==
  [][ \A r \in Sessions :
        (Settles(r) /\ reply'.resp = "500") => ~Alive(stim[r]) ]_vars

\* C32: the exit handler of a stimulus child of an earlier start, run with
\* a failure code after a later start has written its practice document,
\* leaves status.json unchanged.
C32_StaleExitKeepsStatus ==
  [][ \A r \in Sessions :
        (CrashHandled(r) /\ latest # r) => statusFile' = statusFile ]_vars

\* A step in which the route may write status.json.
RouteWrites ==
  \/ \E r \in Sessions : Spawns(r)
  \/ \E r \in Sessions : ExitHandled(r)
  \/ StopReturns

\* C33: the route writes status.json only with state practice, in a start,
\* or with state aborted, in stop or the exit handler, and an aborted write
\* never replaces a completed or aborted document.
C33_RouteWritesPracticeOrAborted ==
  [][ (RouteWrites /\ statusFile' # statusFile) =>
        /\ statusFile'.kind = "json"
        /\ statusFile'.doc.state \in {"practice", "aborted"}
        /\ statusFile'.doc.state = "practice" <=> (\E r \in Sessions : Spawns(r))
        /\ statusFile'.doc.state = "aborted" =>
             ~(statusFile.kind = "json" /\
               statusFile.doc.state \in {"completed", "aborted"}) ]_vars

\* C34: once a start has written status.json the file is never absent
\* again, and a status read answers the idle document only before any
\* start has written.
C34_StatusNeverDeleted ==
  /\ latest # 0 => statusFile.kind # "absent"
  /\ (reply.op = "status" /\ reply.resp = "200" /\ reply.body.state = "idle")
       => (latest = 0 /\ statusFile = Absent)

\* C34's case: a status read after a stop shows the aborted document.
C34_Witness ==
  /\ reply.op = "status"
  /\ reply.resp = "200"
  /\ reply.body.state = "aborted"
  /\ stimulusProcess = 0
  /\ latest # 0
  /\ stim[latest].code = NullCode

\* Nothing is in flight: every start has returned, every child that was
\* spawned has had its exit or launch error handled, no stop is running.
Quiescent ==
  /\ latest # 0
  /\ stopPc = "idle"
  /\ \A r \in Sessions : req[r].pc \in {"none", "done"}
  /\ \A r \in Sessions : stim[r].st \in {"none", "gone"}

\* C35: when nothing is in flight any more status.json reads completed or
\* aborted: no session is left in practice, running or break.
C35_SessionEndsTerminal ==
  Quiescent =>
    /\ statusFile.kind = "json"
    /\ statusFile.doc.state \in {"completed", "aborted"}

\* C36: the exit handler run with code 0 leaves status.json, config.json,
\* feedback.json and the recorded error unchanged, leaves a null health
\* error null, and clears the stimulus handle.
C36_CleanExitTouchesNothing ==
  [][ \A r \in Sessions :
        (ExitHandled(r) /\ stim[r].code = 0) =>
          /\ UNCHANGED <<statusFile, configFile, feedbackFile, processError>>
          /\ HealthBody.error = "null" => HealthBody'.error = "null"
          /\ stimulusProcess' = 0 ]_vars

\* C36's case: the child wrote completed and exited with code 0; its exit
\* event has been handled, the document is the child's and feedback.json
\* is still there.
C36_Witness ==
  /\ nreq = 1
  /\ stim[1].st = "gone"
  /\ processExited
  /\ processError = "null"
  /\ stimulusProcess = 0
  /\ statusFile.kind = "json"
  /\ statusFile.doc.state = "completed"
  /\ feedbackFile # 0

\* C37: every stop answers success and leaves no stimulus handle, so a
\* stop that follows a stop finds nothing to do; it changes no file, no
\* handle and no child.
C37_StopIdempotent ==
  [][ /\ reply'.op = "stop" => (reply'.resp = "ok" /\ stimulusProcess' = 0)
      /\ (reply.op = "stop" /\ reply'.op = "stop") =>
           UNCHANGED <<statusFile, configFile, feedbackFile, stimulusProcess,
                       feedbackProcess, stim, fb>> ]_vars

\* C37's case: a stop that ended a session has returned; the next stop
\* finds no handle.
C37_Witness ==
  /\ reply = [op |-> "stop", resp |-> "ok"]
  /\ stimulusProcess = 0
  /\ nreq = 1
  /\ stim[1].st = "dead" /\ stim[1].code = NullCode
  /\ statusFile.kind = "json"
  /\ statusFile.doc.state = "aborted"

\* A step in which handleStart ends without success: its validation
\* refused the config, or the route answered its POST with an error.
StartRefused ==
  /\ reply'.op = "handleStart"
  /\ reply'.resp # "ok"

\* C38: a start that fails the page's validation or is answered with an
\* error leaves the page not running with no polling timer set and no
\* status fetch sent, and shows the reason validation gave or the route
\* returned; the page enters the running state only in the step in which
\* a start is answered with success.
C38_FailedStartNeverRuns ==
  [][ /\ StartRefused =>
          /\ ~page.isRunning /\ ~page'.isRunning
          /\ page'.timers = {}
          /\ page'.polls = page.polls
          /\ page.mounted =>
               page'.error = IF page.start.st = "answered" THEN page.start.error
                             ELSE reply'.resp
          /\ page'.error # "null" \/ ~page.mounted
      /\ (page'.isRunning /\ ~page.isRunning) =>
           reply' = [op |-> "handleStart", resp |-> "ok"]
    ]_vars

\* C38 witness: the page shows the conflict the route answered and is not
\* running, after a start of its own had been accepted before.
C38_Witness ==
  /\ page.error = "A session is already running"
  /\ ~page.isRunning
  /\ ~page.starting
  /\ page.timers = {}
  /\ nreq >= 1

\* C39: once the stimulus child of the session the page is running has
\* crashed (it ended with a failure code), the page eventually leaves the
\* running state, with no click needed: polling shows the aborted
\* document.
C39_CrashBecomesVisible ==
  \A r \in Sessions :
    (/\ page.mounted /\ page.isRunning /\ page.start.st = "none"
     /\ latest = r /\ stim[r].st = "dead" /\ stim[r].code = 1)
      ~> (~page.isRunning \/ ~page.mounted)

\* C40: at most one polling interval is set, and one is set only while
\* the page is mounted and running: none is left after handleStop, after
\* a poll that read a terminal state, after handleReset or after unmount.
C40_OnePollingTimer ==
  /\ Cardinality(page.timers) <= 1
  /\ page.timers \subseteq {page.pollingRef}
  /\ page.timers # {} => (page.mounted /\ page.isRunning)

\* C40 witness: the effect had set the interval for a running page, and
\* a poll that read a terminal state or handleStop has cleared it before
\* the effect ran again.
C40_Witness ==
  /\ page.mounted
  /\ page.rendered /\ ~page.isRunning
  /\ page.timers = {}
  /\ IsTerminal(page.status)
====
